---- MODULE Spec2Model ----
(***************************************************************************)
(* A model of the example backend: the User entity descriptor and the two  *)
(* schemas derived from it, the UserResolver operation handlers over the   *)
(* document store, the connection manager's init() and the bootstrap of    *)
(* index.ts.                                                               *)
(*                                                                         *)
(* JavaScript runs each handler to its next await without interruption, so *)
(* an action is one synchronous segment of the code: from the invocation   *)
(* to the first awaited store call, and from the store's reply to the next *)
(* awaited call or to the return.  The store executes an awaited call      *)
(* atomically, at the step that resumes the handler with its reply.        *)
(*                                                                         *)
(* The document store is external and outlives the process: Init lets it   *)
(* hold any set of users its unique index on email admits.                 *)
(***************************************************************************)
EXTENDS Integers, Sequences, FiniteSets, TLC

\* ------------------------------------------------------------- bounds ----
\* Identifiers the store can assign: 1..MaxIds.
MaxIds == 2

Ids       == 1..MaxIds
Names     == {"ann"}
Emails    == {"a@x", "b@x"}
Passwords == {"pw"}
\* The username argument is optional: Omitted stands for its absence.
Omitted   == "<omitted>"
Usernames == {"u1"}
\* Request slots: handler invocations that may be in flight at once.
Procs     == {"r1", "r2"}

\* ------------------------------------------------- entity descriptor ----
\* One record per decorated member of class User: prop is @Property (the
\* member is persisted), field is @Field (the member is exposed), fieldName
\* is the exposed name (@Field's name option, else the member's own name).
\* The class as it would be with @Field on password as well.
UserWithExposedPassword ==
  { [member |-> "_id",      prop |-> FALSE, field |-> TRUE,  fieldName |-> "_id",        unique |-> FALSE],
    [member |-> "name",     prop |-> TRUE,  field |-> TRUE,  fieldName |-> "name",       unique |-> FALSE],
    [member |-> "email",    prop |-> TRUE,  field |-> TRUE,  fieldName |-> "email",      unique |-> TRUE],
    [member |-> "username", prop |-> TRUE,  field |-> TRUE,  fieldName |-> "username",   unique |-> FALSE],
    [member |-> "password", prop |-> TRUE,  field |-> TRUE,  fieldName |-> "password",   unique |-> FALSE],
    [member |-> "articles", prop |-> TRUE,  field |-> TRUE,  fieldName |-> "articleIds", unique |-> FALSE],
    [member |-> "articles", prop |-> FALSE, field |-> TRUE,  fieldName |-> "articles",   unique |-> FALSE] }

\* The class as it is: password has @Property and no @Field.
User ==
  { [member |-> "_id",      prop |-> FALSE, field |-> TRUE,  fieldName |-> "_id",        unique |-> FALSE],
    [member |-> "name",     prop |-> TRUE,  field |-> TRUE,  fieldName |-> "name",       unique |-> FALSE],
    [member |-> "email",    prop |-> TRUE,  field |-> TRUE,  fieldName |-> "email",      unique |-> TRUE],
    [member |-> "username", prop |-> TRUE,  field |-> TRUE,  fieldName |-> "username",   unique |-> FALSE],
    [member |-> "password", prop |-> TRUE,  field |-> FALSE, fieldName |-> "password",   unique |-> FALSE],
    [member |-> "articles", prop |-> TRUE,  field |-> TRUE,  fieldName |-> "articleIds", unique |-> FALSE],
    [member |-> "articles", prop |-> FALSE, field |-> TRUE,  fieldName |-> "articles",   unique |-> FALSE] }

\* getModelForClass(User): the persisted field names.  The store adds the
\* identity field _id to every schema.
PersistenceSchema(cls) == {"_id"} \cup {m.member : m \in {x \in cls : x.prop}}

\* @ObjectType: the exposed field names.
ObjectType(cls) == {m.fieldName : m \in {x \in cls : x.field}}

\* default: generateUserName() is evaluated once, when the class is defined.
GeneratedUserName == "generated"

\* ------------------------------------------------------------ store -----
\* A stored user document.
UserDocs ==
  [_id : Ids, name : Names, email : Emails,
   username : Usernames \cup {GeneratedUserName}, password : Passwords,
   articles : {<<>>}]

\* The unique index the store keeps for email (and for _id).
UniqueIndex(s) ==
  \A u, v \in s : (u.email = v.email \/ u._id = v._id) => u = v

RECURSIVE SortById(_)
SortById(s) ==
  IF s = {} THEN <<>>
  ELSE LET u == CHOOSE x \in s : \A y \in s : x._id <= y._id
       IN  <<u>> \o SortById(s \ {u})

\* The values a store call resolves to, and a handler returns or throws.
Null          == [kind |-> "null"]
Array(items)  == [kind |-> "array", items |-> items]
Document(u)   == [kind |-> "doc", doc |-> u]
Boolean(b)    == [kind |-> "bool", val |-> b]
Error(msg)    == [kind |-> "error", msg |-> msg]
None          == [kind |-> "none"]

\* The empty filter {} of find.
AnyEmail == "*"

\* UserModel.find(filter): an array of the matching documents, empty when
\* nothing matches.
Find(s, email) ==
  Array(SortById({u \in s : email = AnyEmail \/ u.email = email}))

\* A lookup that rejects when nothing matches.
FindByIdOrThrow(s, id) ==
  [store |-> s,
   reply |-> IF \E u \in s : u._id = id
             THEN Document(CHOOSE u \in s : u._id = id)
             ELSE Error("not found")]

\* A lookup that takes the document out of the collection.
FindByIdRemoving(s, id) ==
  [store |-> {u \in s : u._id # id},
   reply |-> IF \E u \in s : u._id = id
             THEN Document(CHOOSE u \in s : u._id = id)
             ELSE Null]

\* UserModel.findById(id): the reply is the document, or null; the
\* collection is left as it is.
FindById(s, id) ==
  [store |-> s,
   reply |-> IF \E u \in s : u._id = id
             THEN Document(CHOOSE u \in s : u._id = id)
             ELSE Null]

\* The test inverted: if (!existingUser).
Falsy(v) == v.kind = "null"

\* if (existingUser): JavaScript's truthiness.  null is falsy; an object,
\* and an array whatever its length, is truthy.
Truthy(v) == v.kind # "null"

\* new UserModel({...}): the schema's defaults applied to the field set.
NewUser(id, r) ==
  [_id |-> id, name |-> r.name, email |-> r.email,
   username |-> IF r.username = Omitted THEN GeneratedUserName ELSE r.username,
   password |-> r.password, articles |-> <<>>]

\* newUser.save(): the store of afterwards, and the reply.  The unique index
\* on email rejects a second document with the same email.
DuplicateKey == "E11000 duplicate key error"

Save(s, u) ==
  IF \E v \in s : v.email = u.email
  THEN [store |-> s, reply |-> Error(DuplicateKey)]
  ELSE [store |-> s \cup {u}, reply |-> Document(u)]

\* A field the update leaves undefined: the store library either drops it
\* from the update (keep) or writes null, depending on its version.
NullName == "null"
UndefinedOutcomes == {"keep", "null"}

\* UserModel.findOneAndUpdate({email}, {name, email, username, password}):
\* the first match is updated and the document of before is the reply; null
\* when nothing matches.
Updated(u, r, undef) ==
  [u EXCEPT !.name = r.name, !.email = r.email,
            !.username = IF r.username # Omitted THEN r.username
                         ELSE IF undef = "keep" THEN @ ELSE NullName,
            !.password = r.password]

FindOneAndUpdate(s, r, undef) ==
  LET m == {u \in s : u.email = r.email} IN
  IF m = {} THEN [store |-> s, reply |-> Null]
  ELSE LET u == CHOOSE x \in m : \A y \in m : x._id <= y._id
       IN  [store |-> (s \ {u}) \cup {Updated(u, r, undef)},
            reply |-> Document(u)]

\* A delete that rejects when there is no such document.
FindByIdAndDeleteStrict(s, id) ==
  IF \E u \in s : u._id = id
  THEN [store |-> {u \in s : u._id # id}, reply |-> FindById(s, id).reply]
  ELSE [store |-> s, reply |-> Error("not found")]

\* A lookup in the place of the delete: the document stays.
FindByIdAndKeep(s, id) == [store |-> s, reply |-> FindById(s, id).reply]

\* UserModel.findByIdAndDelete(id): removes the document if there is one;
\* the reply is the removed document or null, and no error either way.
FindByIdAndDelete(s, id) ==
  [store |-> {u \in s : u._id # id}, reply |-> FindById(s, id).reply]

\* --------------------------------------------------------- requests -----
Blank == "-"

Request(op, id, name, email, username, password, authed) ==
  [op |-> op, id |-> id, name |-> name, email |-> email,
   username |-> username, password |-> password, authed |-> authed]

NoRequest == Request("none", 0, Blank, Blank, Blank, Blank, FALSE)

VARIABLES
  store,          \* the users collection: a set of documents
  assigned,       \* the identifiers the store has ever assigned
  pc,             \* per request slot: where its handler is
  req,            \* per request slot: the invocation's arguments and context
  res,            \* per request slot: what the handler returned or threw
  calls,          \* per request slot: store calls the invocation has issued
  boot,           \* where index.ts is
  envLoaded,      \* dotenv has run
  conn,           \* mongoose.connection's state
  connectCalls,   \* mongoose.connect calls issued
  errorListeners, \* db.on('error', ...) registrations
  openListeners,  \* db.once('open', ...) registrations
  log,            \* console lines written, counted per message
  alive,          \* the process has not been terminated
  mongoSchema,    \* the persistence schema derived from User
  gqlType         \* the query-language type derived from User

vars ==
  <<store, assigned, pc, req, res, calls, boot, envLoaded, conn, connectCalls,
    errorListeners, openListeners, log, alive, mongoSchema, gqlType>>

handlerVars == <<store, assigned, pc, req, res, calls>>
bootVars    == <<boot, envLoaded, conn, connectCalls, errorListeners,
                 openListeners, log, alive, mongoSchema, gqlType>>

\* ------------------------------------------------------------- init -----
NoLog == [connected |-> 0, connectError |-> 0, started |-> 0]

\* The collections the store can hold when the process starts.
InitialStores ==
  LET Rows == [Ids -> [present : BOOLEAN, name : Names, email : Emails,
                       username : Usernames \cup {GeneratedUserName},
                       password : Passwords]]
      Docs(f) == { [_id |-> i, name |-> f[i].name, email |-> f[i].email,
                    username |-> f[i].username, password |-> f[i].password,
                    articles |-> <<>>] : i \in {j \in Ids : f[j].present} }
  IN  {s \in {Docs(f) : f \in Rows} : UniqueIndex(s)}

Init ==
  /\ store \in InitialStores
  /\ assigned = {u._id : u \in store}
  /\ pc = [p \in Procs |-> "idle"]
  /\ req = [p \in Procs |-> NoRequest]
  /\ res = [p \in Procs |-> None]
  /\ calls = [p \in Procs |-> 0]
  /\ boot = "start"
  /\ envLoaded = FALSE
  /\ conn = "disconnected"
  /\ connectCalls = 0
  /\ errorListeners = 0
  /\ openListeners = 0
  /\ log = NoLog
  /\ alive = TRUE
  /\ mongoSchema = {}
  /\ gqlType = {}

\* ------------------------------------------------ connection manager ----
\* init() without its db.on('error', ...) line.
mongooseInitNoErrorListener ==
  /\ connectCalls' = connectCalls + 1
  /\ conn' = IF conn = "disconnected" THEN "connecting" ELSE conn
  /\ errorListeners' = errorListeners
  /\ openListeners' = openListeners + 1

\* init(): mongoose.connect(url, options), then one 'error' listener and
\* one 'open' listener on mongoose.connection.  A connect on a connection
\* that is already connecting does not start a second one.
mongooseInit ==
  /\ connectCalls' = connectCalls + 1
  /\ conn' = IF conn = "disconnected" THEN "connecting" ELSE conn
  /\ errorListeners' = errorListeners + 1
  /\ openListeners' = openListeners + 1

\* Events are delivered between the synchronous segments of index.ts, never
\* inside one.
Delivering == alive /\ boot \in {"awaitSchema", "listenCalled", "listening"}

\* 'open': every once-listener logs 'Database Connected'.
ConnectionOpen ==
  /\ Delivering /\ conn = "connecting"
  /\ conn' = "open"
  /\ log' = [log EXCEPT !.connected = @ + openListeners]
  /\ UNCHANGED <<boot, envLoaded, connectCalls, errorListeners, openListeners,
                 alive, mongoSchema, gqlType>>
  /\ UNCHANGED handlerVars

\* 'error': every listener logs 'Could not connect to database'.  An 'error'
\* event nobody listens to is thrown, which ends the process.
ConnectionError ==
  /\ Delivering /\ conn = "connecting"
  /\ conn' = "error"
  /\ log' = [log EXCEPT !.connectError = @ + errorListeners]
  /\ alive' = (errorListeners > 0)
  /\ UNCHANGED <<boot, envLoaded, connectCalls, errorListeners, openListeners,
                 mongoSchema, gqlType>>
  /\ UNCHANGED handlerVars

\* -------------------------------------------------------- bootstrap -----
\* index.ts lines 5-6, at module level: dotenvInit(); mongooseInit();
TopLevelInit ==
  /\ alive /\ boot = "start"
  /\ envLoaded' = TRUE
  /\ mongooseInit
  /\ boot' = "iife"
  /\ UNCHANGED <<log, alive, mongoSchema, gqlType>>
  /\ UNCHANGED handlerVars

\* index.ts lines 21-22, inside the async function: the two again.
BootstrapInit ==
  /\ alive /\ boot = "iife"
  /\ envLoaded' = TRUE
  /\ mongooseInit
  /\ boot' = "express"
  /\ UNCHANGED <<log, alive, mongoSchema, gqlType>>
  /\ UNCHANGED handlerVars

\* express(), app.use(cors(...)), and the await of the schema.
BootstrapApp ==
  /\ alive /\ boot = "express"
  /\ boot' = "awaitSchema"
  /\ UNCHANGED <<envLoaded, conn, connectCalls, errorListeners, openListeners,
                 log, alive, mongoSchema, gqlType>>
  /\ UNCHANGED handlerVars

\* The schema resolves: new ApolloServer({schema}), applyMiddleware, and the
\* call of app.listen.
BootstrapServer ==
  /\ alive /\ boot = "awaitSchema"
  /\ mongoSchema' = PersistenceSchema(User)
  /\ gqlType' = ObjectType(User)
  /\ boot' = "listenCalled"
  /\ UNCHANGED <<envLoaded, conn, connectCalls, errorListeners, openListeners,
                 log, alive>>
  /\ UNCHANGED handlerVars

\* The callback of app.listen: the server is listening, so it is called with
\* no error and logs 'Express Server Started'.
BootstrapListening ==
  /\ alive /\ boot = "listenCalled"
  /\ boot' = "listening"
  /\ log' = [log EXCEPT !.started = @ + 1]
  /\ UNCHANGED <<envLoaded, conn, connectCalls, errorListeners, openListeners,
                 alive, mongoSchema, gqlType>>
  /\ UNCHANGED handlerVars

Bootstrap ==
  \/ TopLevelInit
  \/ BootstrapInit
  \/ BootstrapApp
  \/ BootstrapServer
  \/ BootstrapListening

\* ---------------------------------------------------------- handlers ----
\* The server takes requests once it listens.
Invocable(p) == alive /\ boot = "listening" /\ pc[p] = "idle"

\* The store replies to an awaited call once the connection is open (until
\* then the call is buffered).
Replying(p, op) == alive /\ conn = "open" /\ req[p].op = op

\* The handler returned v, or threw it.
Settle(p, v) ==
  /\ pc' = [pc EXCEPT ![p] = "done"]
  /\ res' = [res EXCEPT ![p] = v]

\* The handler issued a store call and awaits it at `at`.
Await(p, at) ==
  /\ pc' = [pc EXCEPT ![p] = at]
  /\ calls' = [calls EXCEPT ![p] = @ + 1]

\* getUsers: return await UserModel.find({})
getUsers(p) ==
  /\ Invocable(p)
  /\ req' = [req EXCEPT ![p] = Request("getUsers", 0, Blank, Blank, Blank, Blank, FALSE)]
  /\ Await(p, "await")
  /\ UNCHANGED <<store, assigned, res>>
  /\ UNCHANGED bootVars

getUsersResume(p) ==
  /\ Replying(p, "getUsers") /\ pc[p] = "await"
  /\ Settle(p, Find(store, AnyEmail))
  /\ UNCHANGED <<store, assigned, req, calls>>
  /\ UNCHANGED bootVars

\* getUserById(id): return await UserModel.findById(id)
getUserById(p, id) ==
  /\ Invocable(p)
  /\ req' = [req EXCEPT ![p] = Request("getUserById", id, Blank, Blank, Blank, Blank, FALSE)]
  /\ Await(p, "await")
  /\ UNCHANGED <<store, assigned, res>>
  /\ UNCHANGED bootVars

getUserByIdResume(p) ==
  /\ Replying(p, "getUserById") /\ pc[p] = "await"
  /\ LET found == FindById(store, req[p].id) IN
     /\ store' = found.store
     /\ Settle(p, found.reply)
  /\ UNCHANGED <<assigned, req, calls>>
  /\ UNCHANGED bootVars

\* addUser(name, email, username?, password), up to its first await:
\*   const existingUser = await UserModel.find({email})
addUser(p, name, email, username, password) ==
  /\ Invocable(p)
  /\ req' = [req EXCEPT ![p] = Request("addUser", 0, name, email, username, password, FALSE)]
  /\ Await(p, "awaitFind")
  /\ UNCHANGED <<store, assigned, res>>
  /\ UNCHANGED bootVars

\* addUser resumed.  After the find:
\*   if (existingUser) throw new Error('User already Exists')
\*   const newUser = new UserModel({..., articles: []}); await newUser.save()
\* and after the save: return the saved document (a rejected save throws).
addUserResume(p) ==
  /\ Replying(p, "addUser") /\ pc[p] \in {"awaitFind", "awaitSave"}
  /\ IF pc[p] = "awaitFind"
     THEN LET existingUser == Find(store, req[p].email) IN
          IF Truthy(existingUser)
          THEN /\ Settle(p, Error("User already Exists"))
               /\ UNCHANGED <<store, assigned, calls>>
          ELSE /\ Await(p, "awaitSave")
               /\ UNCHANGED <<store, assigned, res>>
     ELSE \E id \in Ids \ assigned :
            LET saved == Save(store, NewUser(id, req[p])) IN
            /\ store' = saved.store
            /\ assigned' = assigned \cup {id}
            /\ Settle(p, saved.reply)
            /\ UNCHANGED calls
  /\ UNCHANGED req
  /\ UNCHANGED bootVars

\* The authorization check left out.
NobodyIsUnauthorized(r) == FALSE

\* if (!ctx.user) throw ...: the authorization check of updateUser and
\* deleteUser.
Unauthorized(r) == ~r.authed

\* updateUser(userInput, ctx), up to its await:
\*   if (!ctx.user) throw new Error("User not authorized.")
\*   return await UserModel.findOneAndUpdate({email}, {name, email, username, password})
updateUser(p, name, email, username, password, authed) ==
  /\ Invocable(p)
  /\ LET r == Request("updateUser", 0, name, email, username, password, authed) IN
     /\ req' = [req EXCEPT ![p] = r]
     /\ IF Unauthorized(r)
        THEN /\ Settle(p, Error("User not authorized."))
             /\ UNCHANGED calls
        ELSE /\ Await(p, "await")
             /\ UNCHANGED res
  /\ UNCHANGED <<store, assigned>>
  /\ UNCHANGED bootVars

updateUserResume(p) ==
  /\ Replying(p, "updateUser") /\ pc[p] = "await"
  /\ \E undef \in UndefinedOutcomes :
       LET updated == FindOneAndUpdate(store, req[p], undef) IN
       /\ store' = updated.store
       /\ Settle(p, updated.reply)
  /\ UNCHANGED <<assigned, req, calls>>
  /\ UNCHANGED bootVars

\* deleteUser(id, ctx), up to its await:
\*   if (!ctx.user) throw new Error("User not authorized")
\*   await UserModel.findByIdAndDelete(id)
deleteUser(p, id, authed) ==
  /\ Invocable(p)
  /\ LET r == Request("deleteUser", id, Blank, Blank, Blank, Blank, authed) IN
     /\ req' = [req EXCEPT ![p] = r]
     /\ IF Unauthorized(r)
        THEN /\ Settle(p, Error("User not authorized"))
             /\ UNCHANGED calls
        ELSE /\ Await(p, "await")
             /\ UNCHANGED res
  /\ UNCHANGED <<store, assigned>>
  /\ UNCHANGED bootVars

\* deleteUser resumed: return true (a rejected store call throws).
deleteUserResume(p) ==
  /\ Replying(p, "deleteUser") /\ pc[p] = "await"
  /\ LET deleted == FindByIdAndDelete(store, req[p].id) IN
     /\ store' = deleted.store
     /\ Settle(p, IF deleted.reply.kind = "error" THEN deleted.reply
                  ELSE Boolean(TRUE))
  /\ UNCHANGED <<assigned, req, calls>>
  /\ UNCHANGED bootVars

\* The response is sent and the slot is free for the next request.
Respond(p) ==
  /\ alive /\ pc[p] = "done"
  /\ pc' = [pc EXCEPT ![p] = "idle"]
  /\ req' = [req EXCEPT ![p] = NoRequest]
  /\ res' = [res EXCEPT ![p] = None]
  /\ calls' = [calls EXCEPT ![p] = 0]
  /\ UNCHANGED <<store, assigned>>
  /\ UNCHANGED bootVars

Invoke(p) ==
  \/ getUsers(p)
  \/ \E id \in Ids : getUserById(p, id)
  \/ \E n \in Names, e \in Emails, u \in Usernames \cup {Omitted}, w \in Passwords :
       addUser(p, n, e, u, w)
  \/ \E n \in Names, e \in Emails, u \in Usernames \cup {Omitted}, w \in Passwords,
        a \in BOOLEAN : updateUser(p, n, e, u, w, a)
  \/ \E id \in Ids, a \in BOOLEAN : deleteUser(p, id, a)

Resume(p) ==
  \/ getUsersResume(p)
  \/ getUserByIdResume(p)
  \/ addUserResume(p)
  \/ updateUserResume(p)
  \/ deleteUserResume(p)

Next ==
  \/ Bootstrap
  \/ ConnectionOpen
  \/ ConnectionError
  \/ \E p \in Procs : Invoke(p) \/ Resume(p) \/ Respond(p)

Spec == Init /\ [][Next]_vars

TypeOK ==
  /\ store \subseteq [_id : Ids, name : Names, email : Emails,
                      username : Usernames \cup {GeneratedUserName, NullName},
                      password : Passwords, articles : {<<>>}]
  /\ assigned \subseteq Ids
  /\ pc \in [Procs -> {"idle", "await", "awaitFind", "awaitSave", "done"}]
  /\ \A p \in Procs : calls[p] \in 0..2
  /\ boot \in {"start", "iife", "express", "awaitSchema", "listenCalled", "listening"}
  /\ conn \in {"disconnected", "connecting", "open", "error"}
  /\ alive \in BOOLEAN

\* ------------------------------------------------------- properties -----
\* Slot p's handler of `op` is resumed from `at` by this step.
Resumes(p, op, at) == req[p].op = op /\ pc[p] = at /\ pc'[p] # at

\* Slot p's handler of `op` has settled.
Settled(p, op) == pc[p] = "done" /\ req[p].op = op

EmailTaken(s, email) == \E u \in s : u.email = email
Exists(s, id)        == \E u \in s : u._id = id

\* C1: an addUser whose email is the email of a stored user is rejected with
\* the conflict error 'User already Exists', and the set of persisted users
\* is the same after the rejection as before it.
C1_DuplicateEmailRejected ==
  [][\A p \in Procs :
       (Resumes(p, "addUser", "awaitFind") /\ EmailTaken(store, req[p].email))
       => /\ pc'[p] = "done"
          /\ res'[p] = Error("User already Exists")
          /\ store' = store]_vars

C1_Witness ==
  \E p \in Procs :
    /\ Settled(p, "addUser")
    /\ res[p] = Error("User already Exists")
    /\ EmailTaken(store, req[p].email)

\* C2: an addUser whose email is not yet in the store is not rejected: it
\* goes on to save, returns the newly created user with an identifier the
\* store had not assigned before, and getUserById with that identifier then
\* finds a user with the input's name and email and with the input's
\* username, or the generated one when the username was omitted.
C2_RoundTrip ==
  [][\A p \in Procs :
       /\ (Resumes(p, "addUser", "awaitFind") /\ ~EmailTaken(store, req[p].email))
          => pc'[p] = "awaitSave"
       /\ (Resumes(p, "addUser", "awaitSave") /\ ~EmailTaken(store, req[p].email))
          => /\ res'[p].kind = "doc"
             /\ res'[p].doc._id \notin assigned
             /\ LET got == FindById(store', res'[p].doc._id).reply IN
                /\ got.kind = "doc"
                /\ got.doc.name = req[p].name
                /\ got.doc.email = req[p].email
                /\ got.doc.username =
                     IF req[p].username = Omitted THEN GeneratedUserName
                     ELSE req[p].username]_vars

\* C3: updateUser and deleteUser invoked without an authenticated user throw
\* the authorization error at once: no store call is issued, the store is
\* unchanged, and the outcome does not depend on whether the target exists.
C3_UnauthenticatedRejected ==
  [][\A p \in Procs :
       (pc[p] = "idle" /\ req'[p].op \in {"updateUser", "deleteUser"}
          /\ ~req'[p].authed)
       => /\ pc'[p] = "done"
          /\ res'[p] = Error(IF req'[p].op = "updateUser"
                             THEN "User not authorized."
                             ELSE "User not authorized")
          /\ calls'[p] = 0
          /\ store' = store]_vars

C3_Witness ==
  \E p, q \in Procs :
    /\ Settled(p, "deleteUser") /\ ~req[p].authed
    /\ res[p].kind = "error" /\ calls[p] = 0
    /\ Exists(store, req[p].id)
    /\ Settled(q, "updateUser") /\ ~req[q].authed
    /\ res[q].kind = "error" /\ calls[q] = 0
    /\ ~EmailTaken(store, req[q].email)

\* C4: an authenticated deleteUser(id) returns true and throws nothing,
\* whether the user is there (a first call), was deleted before (a second
\* call) or never existed; where the user is not there, the store is left
\* exactly as it was.
C4_DeleteIdempotent ==
  [][\A p \in Procs :
       Resumes(p, "deleteUser", "await")
       => /\ pc'[p] = "done"
          /\ res'[p] = Boolean(TRUE)
          /\ ~Exists(store', req[p].id)
          /\ ~Exists(store, req[p].id) => store' = store]_vars

\* Two settled deleteUser calls on one identifier that the store had
\* assigned, and a settled one on an identifier it never assigned.
C4_Witness ==
  \E p, q \in Procs :
    /\ p # q
    /\ Settled(p, "deleteUser") /\ Settled(q, "deleteUser")
    /\ req[p].id = req[q].id /\ req[p].id \in assigned
    /\ res[p] = Boolean(TRUE) /\ res[q] = Boolean(TRUE)

\* C5: getUserById on an identifier no stored user has returns null and
\* throws nothing, and getUsers on an empty store returns the empty array.
C5_NotFoundIsNull ==
  [][\A p \in Procs :
       /\ (Resumes(p, "getUserById", "await") /\ ~Exists(store, req[p].id))
          => (pc'[p] = "done" /\ res'[p] = Null)
       /\ (Resumes(p, "getUsers", "await") /\ store = {})
          => (pc'[p] = "done" /\ res'[p] = Array(<<>>))]_vars

C5_Witness ==
  \E p, q \in Procs :
    /\ Settled(p, "getUserById") /\ res[p] = Null
    /\ Settled(q, "getUsers") /\ res[q] = Array(<<>>)

\* C6: no step of getUsers or getUserById changes the store, and every step
\* that changes it is a step of an addUser, updateUser or deleteUser
\* invocation.
C6_ReadsAreReadOnly ==
  [][/\ \A p \in Procs :
          (req'[p].op \in {"getUsers", "getUserById"} /\ pc'[p] # pc[p])
          => store' = store
     /\ store' # store
        => \E p \in Procs :
             /\ req[p].op \in {"addUser", "updateUser", "deleteUser"}
             /\ pc[p] \in {"await", "awaitSave"} /\ pc'[p] = "done"]_vars

\* Both reads have run against a store that holds a user, and a mutation
\* has changed the store.
C6_Witness ==
  \E p, q \in Procs :
    /\ Settled(p, "getUserById") /\ res[p].kind = "doc"
    /\ res[p].doc \in store
    /\ Settled(q, "getUsers") /\ Len(res[q].items) > 0
    /\ assigned # {u._id : u \in store}

C8_IndexDecidesTheRace ==
  [][/\ \A e \in Emails : Cardinality({u \in store' : u.email = e}) <= 1
     /\ \A p, q \in Procs :
          (/\ p # q
           /\ Resumes(p, "addUser", "awaitFind")
           /\ req[q].op = "addUser" /\ pc[q] \in {"awaitFind", "awaitSave"}
           /\ req[q].email = req[p].email
           /\ ~EmailTaken(store, req[p].email))
          => pc'[p] = "awaitSave"]_vars

\* C9: over the whole bootstrap the connect call is issued once, and one
\* error listener and one open listener are registered.
C9_OneConnection ==
  /\ connectCalls <= 1 /\ errorListeners <= 1 /\ openListeners <= 1
  /\ boot = "listening"
     => (connectCalls = 1 /\ errorListeners = 1 /\ openListeners = 1)

\* The event loop runs every continuation that is ready: the bootstrap's
\* next segment is eventually run.
FairSpec == Spec /\ WF_vars(Bootstrap)

C11_UpdateKeepsOmittedFields ==
  [][\A p \in Procs :
       Resumes(p, "updateUser", "await")
       => /\ Cardinality(store \ store') <= 1
          /\ {u._id : u \in store'} = {u._id : u \in store}
          /\ \A u \in store : u.email # req[p].email => u \in store'
          /\ \A u \in store :
               (u.email = req[p].email /\ req[p].username = Omitted)
               => \E v \in store' : v._id = u._id /\ v.username = u.username]_vars

\* C12: an authenticated deleteUser(id) returns true and removes the user
\* with that identifier and no other; an identifier no stored user has gets
\* a user again only by the save of an addUser; and as long as it has none,
\* getUserById on it returns null and the array of getUsers holds no user
\* with it.
C12_DeletedStaysDeleted ==
  [][/\ \A p \in Procs :
          Resumes(p, "deleteUser", "await")
          => /\ res'[p] = Boolean(TRUE)
             /\ store' = {u \in store : u._id # req[p].id}
     /\ \A id \in Ids :
          (~Exists(store, id) /\ Exists(store', id))
          => \E p \in Procs : Resumes(p, "addUser", "awaitSave")
     /\ \A p \in Procs :
          (Resumes(p, "getUserById", "await") /\ ~Exists(store, req[p].id))
          => res'[p] = Null
     /\ \A p \in Procs :
          Resumes(p, "getUsers", "await")
          => /\ res'[p].kind = "array"
             /\ \A i \in 1..Len(res'[p].items) :
                  Exists(store, res'[p].items[i]._id)]_vars

\* A deleteUser of a user the store held has returned true, a getUserById
\* on the same identifier has returned null since, and the other user is
\* still there.
C12_Witness ==
  \E p, q \in Procs :
    /\ Settled(p, "deleteUser") /\ req[p].authed /\ res[p] = Boolean(TRUE)
    /\ req[p].id \in assigned
    /\ Settled(q, "getUserById") /\ req[q].id = req[p].id /\ res[q] = Null
    /\ \E u \in store : u._id # req[p].id
====
